---- MODULE Spec2Model ----
(***************************************************************************)
(* Model of gnoic's "file stat" command (app/fileStat.go):                 *)
(*   RunEFileStat  fan-out of one goroutine per target, join on a.wg,      *)
(*                 drain of responseChan into result / errs;               *)
(*   FileStat      loop over the configured seed paths;                    *)
(*   fileStat      Stat of one path, isDir of every returned entry,        *)
(*                 recursion into directories.                             *)
(*   statTable     the rows of the table, sorted by target and path.       *)
(* A path is a sequence of components (<<1, 2>> stands for "/1/2"); a      *)
(* target's file system is the record fs[t].                               *)
(***************************************************************************)
EXTENDS Integers, Sequences, FiniteSets, TLC

\* Largest number of targets GetTargets returns under Spec.
MaxTargets == 2

\* Largest number of existing paths in a target's file system under WalkSpec.
MaxNodes == 4

(***************************************************************************)
(* Paths and the remote file system of one target                          *)
(***************************************************************************)

\* Every path a file system of the model may hold, or a seed may name.
PathUniverse ==
    { <<1>>, <<2>>, <<1, 1>>, <<1, 2>>, <<1, 1, 1>> }

IsPrefix(p, q) ==
    /\ Len(p) <= Len(q)
    /\ SubSeq(q, 1, Len(p)) = p

\* A set of paths that holds the parent of every path it holds.
PrefixClosed(S) ==
    \A q \in S : Len(q) > 1 => SubSeq(q, 1, Len(q) - 1) \in S

Children(f, p) ==
    { q \in f.exists : Len(q) = Len(p) + 1 /\ IsPrefix(p, q) }

Last(p) == p[Len(p)]

\* The paths of S (siblings: they differ in their last component) as a
\* sequence, by ascending last component.
RECURSIVE Ascending(_)
Ascending(S) ==
    IF S = {} THEN << >>
    ELSE LET m == CHOOSE x \in S : \A y \in S : Last(x) <= Last(y)
         IN  <<m>> \o Ascending(S \ {m})

Reverse(s) == [i \in 1..Len(s) |-> s[Len(s) + 1 - i]]

\* A uint32 of mode bits (StatInfo.permissions, StatInfo.umask, os.FileMode)
\* is the set of the positions of its 1 bits, bit 0 the least significant.
\* 0644 and 0777:
DefaultPermissions == {8, 7, 5, 2}

DefaultUmask == 0..8

\* The file systems: which paths exist, for which paths Stat / isDir fail,
\* whether a directory's reply lists its children in descending order,
\* whether a directory's reply starts with the directory's own entry, and
\* the permissions and umask its entries carry.
FileSystems(maxNodes) ==
    { f \in [ exists   : { S \in SUBSET PathUniverse :
                               PrefixClosed(S) /\ Cardinality(S) <= maxNodes },
              statFail : { S \in SUBSET PathUniverse : Cardinality(S) <= 1 },
              dirFail  : { S \in SUBSET PathUniverse : Cardinality(S) <= 1 },
              rev      : BOOLEAN,
              selfList : BOOLEAN,
              perm     : { DefaultPermissions },
              umask    : { DefaultUmask } ] :
        /\ f.statFail \subseteq f.exists
        /\ f.dirFail \subseteq f.exists }

(***************************************************************************)
(* Errors.  NoErr is Go's nil error.                                       *)
(***************************************************************************)

NoErr == [kind |-> "nil", target |-> 0, path |-> << >>]

ConnErr(t) == [kind |-> "conn", target |-> t, path |-> << >>]

\* fmt.Errorf("%q file %q stat err: %v", t.Config.Address, path, err)
StatErr(t, path) == [kind |-> "stat", target |-> t, path |-> path]

(***************************************************************************)
(* The remote file probe of a connected target                             *)
(***************************************************************************)

\* fileClient.Stat: an error, or the entries of the reply (r.Stats).  A
\* file's reply is its own entry, a directory's reply lists its children.
Stat(f, path) ==
    IF path \notin f.exists \/ path \in f.statFail
    THEN [ok |-> FALSE, stats |-> << >>]
    ELSE LET kids    == Ascending(Children(f, path))
             ordered == IF f.rev THEN Reverse(kids) ELSE kids
         IN  [ok    |-> TRUE,
              stats |-> IF kids = << >> THEN <<path>>
                        ELSE IF f.selfList THEN <<path>> \o ordered
                        ELSE ordered]

\* a.isDir: an error, or whether the path is a directory.
isDir(f, path) ==
    IF path \in f.dirFail
    THEN [ok |-> FALSE, isDir |-> FALSE]
    ELSE [ok |-> TRUE, isDir |-> Children(f, path) # {}]

(***************************************************************************)
(* The walker                                                              *)
(***************************************************************************)

\* &fileStatInfo{si: si, isDir: isDir}
fileStatInfo(path, dir) == [path |-> path, isDir |-> dir]

\* What a walk returns: the entries and the error, with the Stat and isDir
\* calls it issued, and whether it recursed without end.
WalkResult(rsps, err, stats, probes, diverged) ==
    [rsps |-> rsps, err |-> err, stats |-> stats, probes |-> probes,
     diverged |-> diverged]

\* The entry whose isDir failed appended all the same, as a non-directory.
OnIsDirErrKeep(probed, info) == [probed EXCEPT !.rsps = Append(@, info)]

\* Lines 123-126: isDir returned an error for the entry `info`: the error is
\* logged and the loop continues, before the entry is appended.  `probed`
\* is the walk so far.
OnIsDirErr(probed, info) == probed

\* Lines 128-131: rsps = append(rsps, &fileStatInfo{si, isDir}).
AppendInfo(probed, info) == [probed EXCEPT !.rsps = Append(@, info)]

\* The nested error returned to the caller instead of being logged.
OnNestedStatErrFatal(called, e) == [called EXCEPT !.err = e]

\* The directory's own entry given up along with its subtree.
OnNestedStatErrDropDir(called, e) ==
    [called EXCEPT !.rsps = SubSeq(@, 1, Len(@) - 1)]

\* Lines 135-138: the nested fileStat returned the error e: it is logged and
\* the loop continues.  `called` is the walk so far, the directory's own
\* entry appended.
OnNestedStatErr(called, e) == called

\* The nested entries not appended.
AppendNestedNothing(called, fsi) == called

\* The nested entries put before the entries collected so far.
PrependNested(called, fsi) == [called EXCEPT !.rsps = fsi \o @]

\* Lines 139-142: the entries of the nested fileStat, appended one by one.
AppendNested(called, fsi) == [called EXCEPT !.rsps = @ \o fsi]

\* Every directory recursed into, whatever the flag.
RecurseAlways(dir, recursive) == dir

\* Line 132: if isDir && a.Config.FileStatRecursive.
Recurse(dir, recursive) == dir /\ recursive

\* fileStat(ctx, t, fileClient, path).  `active` holds the paths of the
\* calls of fileStat that have not returned yet: a call for a path that is
\* among them repeats the call that made it, and the recursion never ends.
\* fileStatLoop is the loop over r.Stats from its i-th entry on, `acc` the
\* walk so far (rsps and the calls issued).
RECURSIVE fileStat(_, _, _, _, _), fileStatLoop(_, _, _, _, _, _, _)
fileStat(t, f, recursive, path, active) ==
    IF path \in active
    THEN WalkResult(<< >>, NoErr, {}, {}, TRUE)
    ELSE LET r == Stat(f, path)
         IN  IF ~r.ok
             THEN WalkResult(<< >>, StatErr(t, path), {path}, {}, FALSE)
             ELSE fileStatLoop(t, f, recursive, r.stats, 1,
                               WalkResult(<< >>, NoErr, {path}, {}, FALSE),
                               active \cup {path})

fileStatLoop(t, f, recursive, stats, i, acc, active) ==
    IF i > Len(stats) \/ acc.diverged
    THEN acc
    ELSE LET si      == stats[i]
             d       == isDir(f, si)
             info    == fileStatInfo(si, d.isDir)
             probed  == [acc EXCEPT !.probes = @ \cup {si}]
             kept    == AppendInfo(probed, info)
         IN  IF ~d.ok
             THEN fileStatLoop(t, f, recursive, stats, i + 1,
                               OnIsDirErr(probed, info), active)
             ELSE IF Recurse(d.isDir, recursive)
             THEN LET fsi    == fileStat(t, f, recursive, si, active)
                      called == [kept EXCEPT
                                    !.stats = @ \cup fsi.stats,
                                    !.probes = @ \cup fsi.probes]
                  IN  IF fsi.diverged
                      THEN [called EXCEPT !.diverged = TRUE]
                      ELSE IF fsi.err # NoErr
                      THEN fileStatLoop(t, f, recursive, stats, i + 1,
                                        OnNestedStatErr(called, fsi.err),
                                        active)
                      ELSE fileStatLoop(t, f, recursive, stats, i + 1,
                                        AppendNested(called, fsi.rsps),
                                        active)
             ELSE fileStatLoop(t, f, recursive, stats, i + 1, kept, active)

\* The entries of the earlier seeds returned along with the error.
OnSeedErrKeepEntries(called, e) == [called EXCEPT !.err = e]

\* Lines 104-106: the fileStat of a seed returned the error e: return nil, err.
OnSeedErr(called, e) == [called EXCEPT !.rsps = << >>, !.err = e]

\* Line 107: rsps = append(rsps, fsi...).
AppendSeed(called, fsi) == [called EXCEPT !.rsps = @ \o fsi]

\* FileStat(ctx, t): the loop over a.Config.FileStatPath from its k-th seed
\* on; the first seed whose fileStat returns an error ends it.
RECURSIVE FileStatLoop(_, _, _, _, _, _)
FileStatLoop(t, f, recursive, paths, k, acc) ==
    IF k > Len(paths) \/ acc.diverged
    THEN acc
    ELSE LET fsi    == fileStat(t, f, recursive, paths[k], {})
             called == [acc EXCEPT !.stats = @ \cup fsi.stats,
                                   !.probes = @ \cup fsi.probes]
         IN  IF fsi.diverged
             THEN [called EXCEPT !.diverged = TRUE]
             ELSE IF fsi.err # NoErr
             THEN OnSeedErr(called, fsi.err)
             ELSE FileStatLoop(t, f, recursive, paths, k + 1,
                               AppendSeed(called, fsi.rsps))

FileStat(t, f, recursive, paths) ==
    FileStatLoop(t, f, recursive, paths, 1,
                 WalkResult(<< >>, NoErr, {}, {}, FALSE))


(***************************************************************************)
(* RunEFileStat                                                            *)
(***************************************************************************)

VARIABLES
    targets,           \* a.GetTargets(): the target addresses, distinct
    FileStatPath,      \* a.Config.FileStatPath: the seed paths
    FileStatRecursive, \* a.Config.FileStatRecursive
    fs,                \* fs[t]: the file system behind target t
    connFails,         \* the targets whose CreateGrpcClient returns an error
    mpc,               \* where RunEFileStat itself is
    next,              \* index of the next target the spawning loop takes
    wg,                \* a.wg: the goroutines that have not called Done
    responseChan,      \* the buffered channel's queue
    closed,            \* close(responseChan) has run
    err,               \* RunEFileStat's variable err, captured by every goroutine
    pc,                \* pc[t]: where the goroutine of target t is
    rsp,               \* rsp[t], werr[t]: the goroutine's own rsp, err of line 70
    werr,
    scope,             \* scope[t]: the goroutine's context ctx / cancel
    calls,             \* calls[t]: the Stat and isDir calls issued for target t
    errs,              \* line 83
    result,            \* line 84
    ret,               \* what RunEFileStat returned
    crashed,           \* why the process died ("" while it runs)
    ctx,               \* a.ctx, the context of the run
    stdout             \* what line 95 printed: the rows of the table

vars ==
    <<targets, FileStatPath, FileStatRecursive, fs, connFails, mpc, next, wg,
      responseChan, closed, err, pc, rsp, werr, scope, calls, errs, result,
      ret, crashed, ctx, stdout>>

inputs == <<targets, FileStatPath, FileStatRecursive, fs, connFails>>

Addresses == 1..MaxTargets

numTargets == Len(targets)

Range(s) == { s[i] : i \in 1..Len(s) }

\* The seed lists: none, one or two paths.
SeedLists ==
    {<< >>} \cup { <<p>> : p \in PathUniverse }
            \cup { <<p, q>> : p \in PathUniverse, q \in PathUniverse }

\* The state RunEFileStat starts in, whatever the inputs.
Begin ==
    /\ targets \in { [i \in 1..n |-> i] : n \in 0..MaxTargets }
    /\ connFails \in SUBSET Range(targets)
    /\ mpc = "GetTargets"
    /\ next = 1
    /\ wg = 0
    /\ responseChan = << >>
    /\ closed = FALSE
    /\ err = NoErr
    /\ pc = [t \in Range(targets) |-> "idle"]
    /\ rsp = [t \in Range(targets) |-> << >>]
    /\ werr = [t \in Range(targets) |-> NoErr]
    /\ scope = [t \in Range(targets) |-> "none"]
    /\ calls = [t \in Range(targets) |-> [stats |-> {}, probes |-> {}]]
    /\ errs = << >>
    /\ result = << >>
    /\ ret = "running"
    /\ crashed = ""
    /\ ctx = "live"
    /\ stdout = << >>

\* The file systems of the fleet under Spec: one tree, whose top-level Stat
\* fails or not.
FleetFileSystems ==
    { f \in FileSystems(3) :
        /\ f.exists = { <<1>>, <<1, 1>>, <<2>> }
        /\ f.statFail \subseteq { <<1>> }
        /\ f.dirFail = {}
        /\ ~f.rev
        /\ ~f.selfList }

Init ==
    /\ Begin
    /\ fs \in [Range(targets) -> FleetFileSystems]
    /\ FileStatPath \in { << <<1>> >>, << <<2>>, <<1>> >> }
    /\ FileStatRecursive \in BOOLEAN

\* The file systems of which no two differ only in a field no walk reads:
\* rev where no directory has two children, selfList where there is no
\* directory.
Distinct(f) ==
    /\ f.rev => \E p \in f.exists : Cardinality(Children(f, p)) > 1
    /\ f.selfList => \E p \in f.exists : Children(f, p) # {}

\* One target, every file system and every seed list (one seed list for
\* the target whose connection fails, which is never walked).
WalkInit ==
    /\ Begin
    /\ targets = <<1>>
    /\ fs \in [Range(targets) -> { f \in FileSystems(MaxNodes) : Distinct(f) }]
    /\ FileStatPath \in SeedLists
    /\ FileStatRecursive \in BOOLEAN
    /\ connFails # {} => FileStatPath = << >> /\ FileStatRecursive

\* The mode bits the file systems under TableSpec draw permissions and
\* umask from: ModeDir, ModeSymlink, the owner's r and the others' x.
ModeBits == {31, 27, 8, 0}

\* One tree with a directory below the seed <<1>>, and every permissions
\* and umask over ModeBits.
TableFileSystems ==
    { [f EXCEPT !.perm = p, !.umask = u] :
        f \in { g \in FileSystems(4) :
                   /\ g.exists = { <<1>>, <<1, 1>>, <<1, 1, 1>>, <<2>> }
                   /\ g.statFail = {}
                   /\ g.dirFail = {}
                   /\ ~g.rev
                   /\ ~g.selfList },
        p \in SUBSET ModeBits, u \in SUBSET ModeBits }

\* One target, whose entries carry any permissions and umask.
TableInit ==
    /\ Begin
    /\ targets = <<1>>
    /\ fs \in [Range(targets) -> TableFileSystems]
    /\ FileStatPath = << <<2>>, <<1>> >>
    /\ FileStatRecursive \in BOOLEAN

Running == crashed = ""

\* Lines 44-52: GetTargets, make(chan, numTargets), a.wg.Add(numTargets).
GetTargets ==
    /\ Running
    /\ mpc = "GetTargets"
    /\ \/ /\ mpc' = "returned"
          /\ ret' = "GetTargets error"
          /\ wg' = wg
       \/ /\ mpc' = "spawn"
          /\ wg' = numTargets
          /\ ret' = ret
    /\ UNCHANGED <<inputs, ctx, stdout,
                   next, responseChan, closed, err, pc, rsp, werr,
                   scope, calls, errs, result, crashed>>

\* Lines 53-54: go func(t *Target) for the next target.
Spawn ==
    /\ Running
    /\ mpc = "spawn"
    /\ next <= numTargets
    /\ pc' = [pc EXCEPT ![targets[next]] = "connect"]
    /\ next' = next + 1
    /\ UNCHANGED <<inputs, ctx, stdout,
                   mpc, wg, responseChan, closed, err, rsp, werr,
                   scope, calls, errs, result, ret, crashed>>

\* What CreateGrpcClient returns for target t.
CreateGrpcClient(t) ==
    IF t \in connFails THEN ConnErr(t) ELSE NoErr

\* Lines 56-60: the goroutine's context, and err = a.CreateGrpcClient(...):
\* an assignment to the err of RunEFileStat, which every goroutine shares.
Connect(t) ==
    /\ Running
    /\ pc[t] = "connect"
    /\ scope' = [scope EXCEPT ![t] = "live"]
    /\ err' = CreateGrpcClient(t)
    /\ pc' = [pc EXCEPT ![t] = "check"]
    /\ UNCHANGED <<inputs, ctx, stdout,
                   mpc, next, wg, responseChan, closed, rsp, werr,
                   calls, errs, result, ret, crashed>>

\* A read of the shared err by the goroutine of t.  The goroutines write and
\* read err with no synchronisation (a data race): the read yields what the
\* variable holds now, or what this goroutine itself assigned (a build may
\* keep the assigned value in a register).
ReadErr(t) == { err, CreateGrpcClient(t) }

\* Line 61: if err != nil.
CheckErr(t) ==
    /\ Running
    /\ pc[t] = "check"
    /\ \E e \in ReadErr(t) :
          pc' = [pc EXCEPT ![t] = IF e # NoErr THEN "postErr" ELSE "walk"]
    /\ UNCHANGED <<inputs, ctx, stdout,
                   mpc, next, wg, responseChan, closed, err, rsp,
                   werr, scope, calls, errs, result, ret, crashed>>

\* responseChan <- r by the goroutine of t, which goes on to `to`.  The
\* send blocks while the buffer is full and panics on a closed channel.
Send(t, r, to) ==
    /\ Len(responseChan) < numTargets \/ closed
    /\ IF closed
       THEN /\ crashed' = "send on closed channel"
            /\ UNCHANGED <<responseChan, pc>>
       ELSE /\ responseChan' = Append(responseChan, r)
            /\ pc' = [pc EXCEPT ![t] = to]
            /\ UNCHANGED crashed

\* &fileStatResponse{TargetError{TargetName, Err}, rsp}
fileStatResponse(t, e, r) == [TargetName |-> t, Err |-> e, rsp |-> r]

\* The failure branch without its return: the goroutine goes on to the walk.
PostErrNoReturn(t) ==
    /\ Running
    /\ pc[t] = "postErr"
    /\ \E e \in ReadErr(t) :
          Send(t, fileStatResponse(t, e, << >>), "walk")
    /\ UNCHANGED <<inputs, ctx, stdout, mpc, next, wg, closed, err, rsp, werr,
                   scope, calls, errs, result, ret>>

\* Lines 62-68: the response of the connection failure; Err: err reads the
\* shared err again.
PostErr(t) ==
    /\ Running
    /\ pc[t] = "postErr"
    /\ \E e \in ReadErr(t) : Send(t, fileStatResponse(t, e, << >>), "defer")
    /\ UNCHANGED <<inputs, ctx, stdout,
                   mpc, next, wg, closed, err, rsp, werr, scope,
                   calls, errs, result, ret>>

\* The file system a client that never connected reaches: no path at all,
\* so that every Stat fails.
Unreachable(f) == [f EXCEPT !.exists = {}, !.statFail = {}, !.dirFail = {}]

\* Line 70: rsp, err := a.FileStat(ctx, t), with an err of the goroutine's
\* own.  A walk that recurses without end overflows the goroutine's stack,
\* which ends the process; for a target whose client never connected
\* (t.client is nil) the first Stat returns an error or panics.
Walk(t) ==
    /\ Running
    /\ pc[t] = "walk"
    /\ \E w \in { FileStat(t, IF t \in connFails THEN Unreachable(fs[t])
                                                  ELSE fs[t],
                             FileStatRecursive, FileStatPath) } :
          /\ calls' = [calls EXCEPT ![t] = [stats |-> w.stats,
                                            probes |-> w.probes]]
          /\ \/ /\ w.diverged
                /\ crashed' = "stack overflow"
                /\ UNCHANGED <<pc, rsp, werr>>
             \/ /\ t \in connFails
                /\ w.stats # {}
                /\ crashed' = "nil client"
                /\ UNCHANGED <<pc, rsp, werr>>
             \/ /\ ~w.diverged
                /\ rsp' = [rsp EXCEPT ![t] = w.rsps]
                /\ werr' = [werr EXCEPT ![t] = w.err]
                /\ pc' = [pc EXCEPT ![t] = "post"]
                /\ UNCHANGED crashed
    /\ UNCHANGED <<inputs, ctx, stdout,
                   mpc, next, wg, responseChan, closed, err, scope,
                   errs, result, ret>>

\* Lines 71-77: the response of the walk.
Post(t) ==
    /\ Running
    /\ pc[t] = "post"
    /\ Send(t, fileStatResponse(t, werr[t], rsp[t]), "defer")
    /\ UNCHANGED <<inputs, ctx, stdout,
                   mpc, next, wg, closed, err, rsp, werr, scope,
                   calls, errs, result, ret>>

\* The deferred cancel cancelling the context of the run, and with it every
\* context derived from it.
DeferredCancelsRun(t) ==
    /\ Running
    /\ pc[t] = "defer"
    /\ ctx' = "cancelled"
    /\ scope' = [u \in Range(targets) |->
                    IF scope[u] = "none" THEN "none" ELSE "cancelled"]
    /\ wg' = wg - 1
    /\ pc' = [pc EXCEPT ![t] = "done"]
    /\ UNCHANGED <<inputs, stdout, mpc, next, responseChan, closed, err, rsp,
                   werr, calls, errs, result, ret, crashed>>

\* Lines 55, 57: the deferred calls, cancel() and then a.wg.Done().
Deferred(t) ==
    /\ Running
    /\ pc[t] = "defer"
    /\ scope' = [scope EXCEPT ![t] = "cancelled"]
    /\ wg' = wg - 1
    /\ pc' = [pc EXCEPT ![t] = "done"]
    /\ UNCHANGED <<inputs, ctx, stdout,
                   mpc, next, responseChan, closed, err, rsp, werr,
                   calls, errs, result, ret, crashed>>

\* A CreateGrpcClient (line 60) or a Stat / isDir call of the walk (line 70)
\* that never returns; the goroutine's context of line 56 exists by then.
Hang(t) ==
    /\ Running
    /\ pc[t] \in {"connect", "walk"}
    /\ scope' = [scope EXCEPT ![t] = "live"]
    /\ pc' = [pc EXCEPT ![t] = "hung"]
    /\ UNCHANGED <<inputs, ctx, stdout,
                   mpc, next, wg, responseChan, closed, err, rsp,
                   werr, calls, errs, result, ret, crashed>>

\* Line 80 without the join: the loop has ended, goroutines may still run.
WaitNoJoin ==
    /\ Running
    /\ mpc = "spawn"
    /\ next > numTargets
    /\ mpc' = "close"
    /\ UNCHANGED <<inputs, ctx, stdout,
                   next, wg, responseChan, closed, err, pc, rsp,
                   werr, scope, calls, errs, result, ret, crashed>>

\* Line 80: a.wg.Wait(), after the spawning loop.
Wait ==
    /\ Running
    /\ mpc = "spawn"
    /\ next > numTargets
    /\ wg = 0
    /\ mpc' = "close"
    /\ UNCHANGED <<inputs, ctx, stdout,
                   next, wg, responseChan, closed, err, pc, rsp,
                   werr, scope, calls, errs, result, ret, crashed>>

\* Lines 81-84: close(responseChan), and the empty errs and result.
Close ==
    /\ Running
    /\ mpc = "close"
    /\ closed' = TRUE
    /\ mpc' = "range"
    /\ UNCHANGED <<inputs, ctx, stdout,
                   next, wg, responseChan, err, pc, rsp, werr, scope,
                   calls, errs, result, ret, crashed>>

\* fmt.Errorf("%q File Stat failed: %v", rsp.TargetName, rsp.Err)
wErr(r) == [TargetName |-> r.TargetName, Err |-> r.Err]

\* Lines 85-93: one round of for rsp := range responseChan.
Receive ==
    /\ Running
    /\ mpc = "range"
    /\ responseChan # << >>
    /\ LET r == Head(responseChan)
       IN  IF r.Err # NoErr
           THEN /\ errs' = Append(errs, wErr(r))
                /\ UNCHANGED result
           ELSE /\ result' = Append(result, r)
                /\ UNCHANGED errs
    /\ responseChan' = Tail(responseChan)
    /\ UNCHANGED <<inputs, ctx, stdout,
                   mpc, next, wg, closed, err, pc, rsp, werr, scope,
                   calls, ret, crashed>>

\* The end of the range loop: the channel is closed and drained.
EndRange ==
    /\ Running
    /\ mpc = "range"
    /\ responseChan = << >>
    /\ closed
    /\ mpc' = "report"
    /\ UNCHANGED <<inputs, ctx, stdout,
                   next, wg, responseChan, closed, err, pc, rsp,
                   werr, scope, calls, errs, result, ret, crashed>>

(***************************************************************************)
(* statTable.  A string is the sequence of its characters; a row holds the *)
(* columns Target Name, Path, Perm and Umask.                              *)
(***************************************************************************)

\* os.FileMode.String(): the letters of "dalTLDpSugct?" whose bits, from
\* bit 31 down, are set, or "-" when none is, then "rwxrwxrwx" with "-" in
\* the place of every bit, from bit 8 down, that is not set.
TypeLetters ==
    <<"d", "a", "l", "T", "L", "D", "p", "S", "u", "g", "c", "t", "?">>

RECURSIVE TypeString(_, _)
TypeString(m, i) ==
    IF i > Len(TypeLetters) THEN << >>
    ELSE (IF 32 - i \in m THEN <<TypeLetters[i]>> ELSE << >>)
         \o TypeString(m, i + 1)

rwx == <<"r", "w", "x", "r", "w", "x", "r", "w", "x">>

ModeString(m) ==
    LET type == TypeString(m, 1)
    IN  (IF type = << >> THEN <<"-">> ELSE type)
        \o [i \in 1..Len(rwx) |-> IF 9 - i \in m THEN rwx[i] ELSE "-"]

\* The StatInfo of an entry of target t: fsi.si.GetPermissions(), GetUmask().
GetPermissions(t) == fs[t].perm

GetUmask(t) == fs[t].umask

\* The mode string of the masked bits for every entry, directory or not.
PermsNoMarker(t, dir) == ModeString(GetPermissions(t) \cap GetUmask(t))

\* Lines 153-156: perms, and "d" + perms[1:] for a directory.
Perms(t, dir) ==
    LET perms == ModeString(GetPermissions(t) \cap GetUmask(t))
    IN  IF dir THEN <<"d">> \o Tail(perms) ELSE perms

\* Lines 171-178: the row of one entry.
Row(t, fsi) ==
    [TargetName |-> t,
     Path       |-> fsi.path,
     Perm       |-> Perms(t, fsi.isDir),
     Umask      |-> ModeString(GetUmask(t))]

\* Lines 151-179: targetTabData[t], the rows of target t in the order the
\* responses and their entries come.
RECURSIVE targetTabData(_, _)
targetTabData(rs, t) ==
    IF rs = << >> THEN << >>
    ELSE LET r == Head(rs)
         IN  (IF r.TargetName = t
              THEN [i \in 1..Len(r.rsp) |-> Row(t, r.rsp[i])]
              ELSE << >>)
             \o targetTabData(Tail(rs), t)

\* data[i][1] < data[j][1]: Go's order of the two path strings ("/1" is
\* before "/1/1", which is before "/2"; every component is one character).
PathLess(p, q) ==
    \E k \in 1..Len(q) :
        /\ \A j \in 1..(k - 1) : j <= Len(p) /\ p[j] = q[j]
        /\ k > Len(p) \/ p[k] < q[k]

\* The rows left in the order they came.
Unsorted(data) == data

\* Lines 182-186: sort.Slice(data, ...) by path.  Two rows of one target
\* with the same path are the same row, so that there is one sorted order.
RECURSIVE SortSlice(_)
SortSlice(data) ==
    IF data = << >> THEN << >>
    ELSE LET row    == Head(data)
             sorted == SortSlice(Tail(data))
             before == { i \in 1..Len(sorted) :
                            PathLess(sorted[i].Path, row.Path) }
             n      == Cardinality(before)
         IN  SubSeq(sorted, 1, n) \o <<row>>
             \o SubSeq(sorted, n + 1, Len(sorted))

\* Lines 166-169 and 188-190: the targets that have a row, sorted.
RECURSIVE SortedTargets(_)
SortedTargets(S) ==
    IF S = {} THEN << >>
    ELSE LET m == CHOOSE x \in S : \A y \in S : x <= y
         IN  <<m>> \o SortedTargets(S \ {m})

\* Lines 192-195: tabData, the rows of the sorted targets one after another.
RECURSIVE tabData(_, _)
tabData(rs, ts) ==
    IF ts = << >> THEN << >>
    ELSE SortSlice(targetTabData(rs, Head(ts))) \o tabData(rs, Tail(ts))

statTable(rs) ==
    tabData(rs, SortedTargets({ rs[i].TargetName :
                                  i \in { j \in 1..Len(rs) :
                                             rs[j].rsp # << >> } }))

\* Line 95: fmt.Print(a.statTable(result)).
Report ==
    /\ Running
    /\ mpc = "report"
    /\ stdout' = statTable(result)
    /\ mpc' = "return"
    /\ UNCHANGED <<inputs, ctx, next, wg, responseChan, closed, err, pc, rsp,
                   werr, scope, calls, errs, result, ret, crashed>>

\* a.handleErrs(errs): nil when no target failed, else an error made of
\* the entries of errs.
handleErrs(es) == IF es = << >> THEN "nil" ELSE "error"

\* Line 96: return a.handleErrs(errs).
Return ==
    /\ Running
    /\ mpc = "return"
    /\ mpc' = "returned"
    /\ ret' = handleErrs(errs)
    /\ UNCHANGED <<inputs, ctx, stdout,
                   next, wg, responseChan, closed, err, pc, rsp,
                   werr, scope, calls, errs, result, crashed>>

Unit(t) ==
    \/ Connect(t)
    \/ CheckErr(t)
    \/ PostErr(t)
    \/ Walk(t)
    \/ Post(t)
    \/ Deferred(t)

Main ==
    \/ GetTargets
    \/ Spawn
    \/ Wait
    \/ Close
    \/ Receive
    \/ EndRange
    \/ Report
    \/ Return

Next ==
    \/ Main
    \/ \E t \in Range(targets) : Unit(t)
    \/ \E t \in Range(targets) : Hang(t)

Spec == Init /\ [][Next]_vars

WalkSpec == WalkInit /\ [][Next]_vars

TableSpec == TableInit /\ [][Next]_vars

\* The scheduler runs every goroutine that can take a step; a call that
\* hangs (Hang) is the environment's choice.
FairSpec ==
    /\ Init
    /\ [][Next]_vars
    /\ WF_vars(Main)
    /\ \A t \in Addresses : WF_vars(t \in Range(targets) /\ Unit(t))

(***************************************************************************)
(* Properties of the dispatcher and the aggregator                         *)
(***************************************************************************)

\* The responses sent so far, received or not.
TargetsOf(s) == { s[i].TargetName : i \in 1..Len(s) }

Collected(t) == t \in TargetsOf(errs) \cup TargetsOf(result)

Aggregating ==
    \/ mpc \in {"close", "range", "report", "return"}
    \/ mpc = "returned" /\ ret # "GetTargets error"

Aggregated ==
    \/ mpc \in {"report", "return"}
    \/ mpc = "returned" /\ ret # "GetTargets error"

\* Every Stat and isDir call the walk of target t makes succeeds.
ProbesSucceed(t) ==
    /\ fs[t].statFail = {}
    /\ fs[t].dirFail = {}
    /\ Range(FileStatPath) \subseteq fs[t].exists

\* C1: the branch a goroutine takes after its connection step, and the
\* connection error it posts, are decided by its own CreateGrpcClient alone.
C1_OwnConnectionDecides ==
    /\ \A t \in Range(targets) :
          /\ pc[t] = "postErr" => CreateGrpcClient(t) # NoErr
          /\ pc[t] \in {"walk", "post"} => CreateGrpcClient(t) = NoErr
    /\ \A i \in 1..Len(responseChan) :
          responseChan[i].Err.kind = "conn"
              => responseChan[i].Err = ConnErr(responseChan[i].TargetName)

\* C2: when every Stat and isDir call succeeds, after the aggregation loop
\* result holds exactly the targets whose connection succeeded and errs
\* exactly those whose connection failed.
C2_PartitionByConnection ==
    (Aggregated /\ \A t \in Range(targets) : ProbesSucceed(t))
        => /\ TargetsOf(result) = Range(targets) \ connFails
           /\ TargetsOf(errs) = connFails

\* C3: aggregation starts only after every goroutine has finished, each
\* target has exactly one response (in the channel, in errs or in result),
\* and once the loop has ended all numTargets responses are in errs or result.
C3_JoinBarrier ==
    Aggregating
        => /\ \A t \in Range(targets) : pc[t] = "done"
           /\ LET all == responseChan \o errs \o result
              IN  /\ Len(all) = numTargets
                  /\ TargetsOf(all) = Range(targets)
           /\ Aggregated => responseChan = << >>

C3_Witness ==
    /\ mpc = "report"
    /\ numTargets = 2
    /\ Len(errs) = 1
    /\ Len(result) = 1

\* C4: for a target whose CreateGrpcClient failed, FileStat is never called
\* and no Stat or isDir call is issued.
C4_NoWalkAfterConnectionFailure ==
    \A t \in connFails :
        /\ pc[t] # "post"
        /\ calls[t].stats = {}
        /\ calls[t].probes = {}

\* C5: whatever the other targets' goroutines do (hang, fail), the response
\* of a target whose own goroutine has started and does not hang is
\* eventually received into errs or result.
C5_Isolation ==
    \A t \in Addresses :
        (t \in Range(targets) /\ pc[t] # "idle")
            ~> (t \in Range(targets)
                    /\ (Collected(t) \/ pc[t] = "hung" \/ ~Running))

(***************************************************************************)
(* Properties of the walker                                                *)
(***************************************************************************)

\* FileStat has returned to the goroutine of the connected target t.
WalkDone(t) ==
    /\ pc[t] \in {"post", "defer", "done"}
    /\ t \notin connFails

ListedPaths(t) == { rsp[t][i].path : i \in 1..Len(rsp[t]) }

Listed(t, q) == q \in ListedPaths(t)

Parent(p) == SubSeq(p, 1, Len(p) - 1)

\* The seeds whose own (top-level) Stat fails on target t.
FailingSeeds(t) ==
    { k \in 1..Len(FileStatPath) : ~Stat(fs[t], FileStatPath[k]).ok }

\* The paths for which the walk of t got an error from isDir, and the
\* paths that are not seeds for which it got an error from a nested Stat.
ProbeFailures(t) == fs[t].dirFail \cap calls[t].probes

NestedStatFailures(t) ==
    (fs[t].statFail \cap calls[t].stats) \ Range(FileStatPath)

C7_OnlySeedStatIsFatal ==
    \A t \in Range(targets) :
        /\ WalkDone(t)
              => /\ werr[t] # NoErr <=> FailingSeeds(t) # {}
                 /\ werr[t] # NoErr
                       => /\ rsp[t] = << >>
                          /\ \E k \in FailingSeeds(t) :
                                /\ \A j \in FailingSeeds(t) : k <= j
                                /\ werr[t] = StatErr(t, FileStatPath[k])
        /\ (Aggregated /\ numTargets = 1 /\ t \notin connFails)
              => (t \in TargetsOf(errs) <=> FailingSeeds(t) # {})

C7_Witness ==
    \E t \in Range(targets) :
        /\ Aggregated
        /\ t \notin connFails
        /\ FileStatRecursive
        /\ Len(FileStatPath) = 2
        /\ FailingSeeds(t) = {2}
        /\ Children(fs[t], FileStatPath[1]) # {}
        /\ ProbeFailures(t) # {}
        /\ t \in TargetsOf(errs)
        /\ result = << >>

\* C8: with recursion, when the Stat of a directory entry fails at a nested
\* level and every seed's own Stat succeeds, the walk succeeds, the
\* directory's entry is in the list, nothing below it is (no seed lying
\* below it), and the entries of the directory's siblings and of the other seeds' replies are in the list
\* unless their own isDir failed.
C8_NestedStatFailureSkipsSubtree ==
    \A t \in Range(targets) :
        (WalkDone(t) /\ FileStatRecursive /\ FailingSeeds(t) = {})
            => \A p \in NestedStatFailures(t) :
                  /\ werr[t] = NoErr
                  /\ \E i \in 1..Len(rsp[t]) :
                        rsp[t][i] = fileStatInfo(p, TRUE)
                  /\ (\A k \in 1..Len(FileStatPath) :
                          ~IsPrefix(p, FileStatPath[k]))
                        => \A q \in ListedPaths(t) : ~(IsPrefix(p, q) /\ q # p)
                  /\ \A q \in Children(fs[t], Parent(p)) :
                        q \notin fs[t].dirFail => Listed(t, q)
                  /\ \A k \in 1..Len(FileStatPath) :
                        \A q \in Range(Stat(fs[t], FileStatPath[k]).stats) :
                            q \notin fs[t].dirFail => Listed(t, q)

C8_Witness ==
    \E t \in Range(targets) :
        /\ WalkDone(t)
        /\ FileStatRecursive
        /\ Len(FileStatPath) = 2
        /\ FailingSeeds(t) = {}
        /\ \E p \in NestedStatFailures(t) :
              /\ IsPrefix(FileStatPath[1], p)
              /\ \E i \in 1..(Len(rsp[t]) - 1) :
                    /\ rsp[t][i].path = p
                    /\ rsp[t][i + 1].path \in Children(fs[t], Parent(p))
              /\ Listed(t, FileStatPath[2])

NonOverlapping(seeds) ==
    \A i, j \in 1..Len(seeds) : i # j => ~IsPrefix(seeds[i], seeds[j])

\* The paths strictly between the path s and the path q below it.
Between(s, q) ==
    { SubSeq(q, 1, n) : n \in (Len(s) + 1)..(Len(q) - 1) }

\* The entries reachable from the seed s on the file system f: the entry of
\* s when s is a file, every path below s when s is a directory, but no
\* path below a path whose isDir or nested Stat fails.
Reachable(f, s) ==
    { q \in f.exists :
        \/ Children(f, s) = {} /\ q = s
        \/ /\ Children(f, s) # {}
           /\ IsPrefix(s, q)
           /\ q # s
           /\ Between(s, q) \cap (f.dirFail \cup f.statFail) = {} }

Reached(f, seeds) == UNION { Reachable(f, seeds[k]) : k \in 1..Len(seeds) }

RecursiveWalkDone(t) ==
    /\ WalkDone(t)
    /\ werr[t] = NoErr
    /\ FileStatRecursive
    /\ NonOverlapping(FileStatPath)

RECURSIVE SeedReplies(_, _)
SeedReplies(f, seeds) ==
    IF seeds = << >> THEN << >>
    ELSE Stat(f, Head(seeds)).stats \o SeedReplies(f, Tail(seeds))

PathsOf(entries) == [i \in 1..Len(entries) |-> entries[i].path]

\* The paths of s whose isDir succeeds on f.
Classified(f, s) ==
    LET Ok(p) == isDir(f, p).ok
    IN  SelectSeq(s, Ok)

RECURSIVE PreOrder(_, _, _)
PreOrder(f, recursive, reply) ==
    IF reply = << >> THEN << >>
    ELSE LET si == Head(reply)
             d  == isDir(f, si)
             r  == Stat(f, si)
             own == IF d.ok THEN << fileStatInfo(si, d.isDir) >> ELSE << >>
             below == IF d.ok /\ d.isDir /\ recursive /\ r.ok
                      THEN PreOrder(f, recursive, r.stats)
                      ELSE << >>
         IN  own \o below \o PreOrder(f, recursive, Tail(reply))

\* What the seeds yield, seed after seed.
RECURSIVE SeedsPreOrder(_, _, _)
SeedsPreOrder(f, recursive, seeds) ==
    IF seeds = << >> THEN << >>
    ELSE PreOrder(f, recursive, Stat(f, Head(seeds)).stats)
             \o SeedsPreOrder(f, recursive, Tail(seeds))

Pos(s, x) == CHOOSE i \in 1..Len(s) : s[i] = x

\* The length of the longest common prefix of two paths neither of which is
\* a prefix of the other.
Fork(p, q) ==
    CHOOSE n \in 0..Len(p) :
        /\ SubSeq(p, 1, n) = SubSeq(q, 1, n)
        /\ p[n + 1] # q[n + 1]

\* p comes before q in the pre-order the seeds and the replies define
\* (non-overlapping seeds): by seed; within a seed an ancestor first; else
\* by the place, in the reply of the directory where the two paths part, of
\* the entries that lead to them.
Precedes(f, seeds, p, q) ==
    LET sp == CHOOSE k \in 1..Len(seeds) : IsPrefix(seeds[k], p)
        sq == CHOOSE k \in 1..Len(seeds) : IsPrefix(seeds[k], q)
    IN  IF sp # sq THEN sp < sq
        ELSE IF IsPrefix(p, q) THEN TRUE
        ELSE IF IsPrefix(q, p) THEN FALSE
        ELSE LET n     == Fork(p, q)
                 reply == Stat(f, SubSeq(p, 1, n)).stats
             IN  Pos(reply, SubSeq(p, 1, n + 1))
                     < Pos(reply, SubSeq(q, 1, n + 1))

DirectoryWithOneChild(t) ==
    /\ Len(FileStatPath) = 1
    /\ fs[t].statFail = {}
    /\ fs[t].dirFail = {}
    /\ \E c \in fs[t].exists :
          /\ Children(fs[t], FileStatPath[1]) = {c}
          /\ Children(fs[t], c) = {}

Printed ==
    \/ mpc = "return"
    \/ mpc = "returned" /\ ret # "GetTargets error"

\* How many elements of the sequence s are x.
Count(s, x) == Cardinality({ i \in 1..Len(s) : s[i] = x })

\* The paths of the entries the response of target t in result holds.
ResultPaths(t) ==
    IF t \in TargetsOf(result)
    THEN PathsOf(result[CHOOSE i \in 1..Len(result) :
                            result[i].TargetName = t].rsp)
    ELSE << >>

\* C12: whatever the order in which the responses were received, the rows
\* printed are the entries of the successful targets, one row for each,
\* by ascending target and, within a target, by ascending path: they are a
\* function of the set of the responses.
C12_RowsSortedWhateverArrival ==
    Printed
        => /\ \A i, j \in 1..Len(stdout) :
                 i < j
                    => \/ stdout[i].TargetName < stdout[j].TargetName
                       \/ /\ stdout[i].TargetName = stdout[j].TargetName
                          /\ ~PathLess(stdout[j].Path, stdout[i].Path)
           /\ \A t \in Addresses, p \in PathUniverse :
                 Cardinality({ i \in 1..Len(stdout) :
                                  /\ stdout[i].TargetName = t
                                  /\ stdout[i].Path = p })
                     = Count(ResultPaths(t), p)

\* Two targets received in descending order, the walker's order of the
\* first not the ascending one.
C12_Witness ==
    /\ Printed
    /\ Len(result) = 2
    /\ result[1].TargetName > result[2].TargetName
    /\ Len(result[1].rsp) = 2
    /\ PathLess(result[1].rsp[2].path, result[1].rsp[1].path)
    /\ Len(stdout) = 4

\* The targets that failed: the connection, or the Stat of a seed.
Failed(t) == t \in connFails \/ FailingSeeds(t) # {}

\* C13: when RunEFileStat returns, the rows of every target that did not
\* fail have been printed, the error returned holds one entry for each
\* target that failed, which names it, and no other entry; with no failed
\* target nil is returned.
C13_TableThenAggregatedError ==
    (mpc = "returned" /\ ret # "GetTargets error")
        => /\ \A t \in Range(targets) :
                 ~Failed(t)
                    => \A p \in ListedPaths(t) :
                          \E i \in 1..Len(stdout) :
                              /\ stdout[i].TargetName = t
                              /\ stdout[i].Path = p
           /\ TargetsOf(errs) = { t \in Range(targets) : Failed(t) }
           /\ Len(errs) = Cardinality(TargetsOf(errs))
           /\ ret = (IF \E t \in Range(targets) : Failed(t)
                     THEN "error" ELSE "nil")

(***************************************************************************)
(* Properties of the goroutines' contexts and of the channel               *)
(***************************************************************************)

\* The responses target t has sent so far, received or not.
Posts(t) ==
    LET all == responseChan \o errs \o result
    IN  Cardinality({ i \in 1..Len(all) : all[i].TargetName = t })

\* C14: every step that creates the context of a goroutine derives it
\* live from the live context of the run, and every step that cancels the
\* context of the goroutine of t is taken after t has sent its response,
\* and leaves the context of the run and the contexts of the other
\* goroutines as they were.
C14_OwnScopeCancelledAfterPost ==
    [][\A t \in Range(targets) :
          /\ (scope[t] = "none" /\ scope'[t] # "none")
                => scope'[t] = "live" /\ ctx = "live"
          /\ (scope[t] # "cancelled" /\ scope'[t] = "cancelled")
                => /\ Posts(t) = 1
                   /\ ctx' = ctx
                   /\ \A u \in Range(targets) \ {t} : scope'[u] = scope[u]
      ]_vars

\* The context of a target that has sent its response is cancelled while
\* that of another goroutine, which has sent its own, and the run's are
\* live.
C14_Witness ==
    /\ ctx = "live"
    /\ \E t, u \in Range(targets) :
          /\ scope[t] = "cancelled"
          /\ scope[u] = "live"
          /\ pc[u] = "defer"
          /\ t \in TargetsOf(responseChan)

\* C15: every response in the channel holds an error and no entry, or no
\* error and a list of entries that may be empty; what the range loop has
\* taken as a success holds no error.
C15_FailureOrSuccess ==
    /\ \A i \in 1..Len(responseChan) :
          responseChan[i].Err # NoErr => responseChan[i].rsp = << >>
    /\ \A i \in 1..Len(result) : result[i].Err = NoErr
    /\ \A i \in 1..Len(errs) : errs[i].Err # NoErr

\* The channel holds the failure of a walk that had collected the entries of
\* its first seed when the Stat of its second seed failed.
C15_Witness ==
    /\ Len(FileStatPath) = 2
    /\ \E i \in 1..Len(responseChan) :
          LET r == responseChan[i]
          IN  /\ r.Err = StatErr(r.TargetName, FileStatPath[2])
              /\ Stat(fs[r.TargetName], FileStatPath[1]).ok
              /\ r.rsp = << >>

\* The rows printed for the entry e of target t.
RowsFor(t, e) ==
    { i \in 1..Len(stdout) :
        stdout[i].TargetName = t /\ stdout[i].Path = e.path }

\* C16: the Perm column of the row of an entry classified as a directory
\* is "d" followed by the mode string of (permissions AND umask) without
\* its first character, that of any other entry is that mode string; in
\* both, the last nine characters show the bits 8..0 set in both.
C16_DirectoryMarker ==
    Printed
        => \A k \in 1..Len(result) :
              \A j \in 1..Len(result[k].rsp) :
                  LET t == result[k].TargetName
                      e == result[k].rsp[j]
                      m == ModeString(fs[t].perm \cap fs[t].umask)
                  IN  /\ RowsFor(t, e) # {}
                      /\ \A i \in RowsFor(t, e) :
                            LET perms == stdout[i].Perm
                            IN  /\ e.isDir => perms[1] = "d"
                                /\ e.isDir => Tail(perms) = Tail(m)
                                /\ ~e.isDir => perms = m
                                /\ \A b \in 0..8 :
                                      perms[Len(perms) - b] # "-"
                                          <=> b \in fs[t].perm
                                                /\ b \in fs[t].umask

\* The rows of a directory and of a file whose permissions hold the
\* directory bit, which the umask clears, and the symlink bit, which it
\* keeps: the mode string of the masked bits begins with "L".
C16_Witness ==
    /\ Printed
    /\ \E t \in Range(targets) :
          /\ 31 \in fs[t].perm \ fs[t].umask
          /\ 27 \in fs[t].perm \cap fs[t].umask
          /\ 8 \in fs[t].perm \ fs[t].umask
          /\ 0 \in fs[t].perm \cap fs[t].umask
          /\ \E i, j \in 1..Len(stdout) :
                /\ stdout[i].TargetName = t
                /\ stdout[j].TargetName = t
                /\ stdout[i].Perm[1] = "d"
                /\ stdout[j].Perm[1] = "L"

\* C17: a goroutine has sent no response before it reaches its deferred
\* calls and exactly one from then on, on either path; the channel never
\* holds more than numTargets responses, so that a goroutine about to send
\* finds room; the channel is closed only when every goroutine has sent,
\* so that no send finds it closed.
C17_OnePostNeverBlocked ==
    /\ \A t \in Range(targets) :
          /\ Posts(t) = (IF pc[t] \in {"defer", "done"} THEN 1 ELSE 0)
          /\ pc[t] \in {"postErr", "post"}
                => Len(responseChan) < numTargets /\ ~closed
          /\ closed => Posts(t) = 1
    /\ Len(responseChan) <= numTargets
    /\ crashed # "send on closed channel"

\* The channel is full and closed: it holds the response of a connection
\* failure and that of a walk.
C17_Witness ==
    /\ closed
    /\ numTargets = MaxTargets
    /\ Len(responseChan) = numTargets
    /\ \E i, j \in 1..Len(responseChan) :
          /\ responseChan[i].Err.kind = "conn"
          /\ responseChan[j].rsp # << >>

\* C18: every walk returns, that of a file system whose reply to the Stat
\* of a directory holds the directory's own entry included: no goroutine
\* recurses until its stack overflows, and the goroutine of a connected
\* target that is walking can go on to send its response.
C18_WalkTerminates ==
    /\ crashed # "stack overflow"
    /\ \A t \in Range(targets) \ connFails :
          pc[t] = "walk"
              => ~FileStat(t, fs[t], FileStatRecursive, FileStatPath).diverged
====
